---- MODULE Spec2Model ----
(***************************************************************************)
(* Type inference of the hir_ty crate (crates/hir_ty/src/lib.rs).          *)
(*                                                                         *)
(* The recursive traversal infer_in_scope -> infer_stmt -> infer_fnc_def / *)
(* infer_expr -> expect_tys_match is modelled as a machine with an         *)
(* explicit call stack: `stack` holds the frames of the calls that wait    *)
(* for a callee, `ctl` is the call about to be entered or the value just   *)
(* returned.  Arena indices are the positions 1..Len of a sequence.        *)
(***************************************************************************)
EXTENDS Naturals, Sequences, FiniteSets, TLC

VARIABLES
    program,    \* hir::Program of the current run: the arenas and stmts
    later,      \* statement lists of the inputs that follow (REPL session)
    in_scope,   \* the InScope the current run was seeded with
    result,     \* InferCtx.result: InferResult
    stack,      \* frames of the active calls, innermost last
    ctl,        \* pending call, or the value returned by the last call
    pos,        \* infer_in_scope: position of the next statement of stmts
    phase,      \* "running" | "done" (result returned) | "panic"
    steps       \* number of steps taken by the current run

vars == <<program, later, in_scope, result, stack, ctl, pos, phase, steps>>

----------------------------------------------------------------------------
(* hir::Ty *)

Unknown == "Unknown"
S32     == "S32"
String  == "String"
Unit    == "Unit"

Ty == {Unknown, S32, String, Unit}

(* ArenaMap: a partial map from indices to values *)

EmptyMap == <<>>

Has(m, k) == k \in DOMAIN m

Insert(m, k, v) == [x \in (DOMAIN m) \cup {k} |-> IF x = k THEN v ELSE m[x]]

(* hir::Stmt and hir::Expr constructors *)

StmtLocalDef(d) == [kind |-> "LocalDef", idx |-> d]
StmtFncDef(f)   == [kind |-> "FncDef", idx |-> f]
StmtExpr(e)     == [kind |-> "Expr", idx |-> e]

ExprMissing        == [kind |-> "Missing"]
ExprBin(l, r)      == [kind |-> "Bin", lhs |-> l, rhs |-> r]
ExprBlock(ss)      == [kind |-> "Block", stmts |-> ss]
ExprVarRefLocal(d) == [kind |-> "VarRefLocal", def |-> d]
ExprVarRefParam(p) == [kind |-> "VarRefParam", def |-> p]
ExprIntLiteral     == [kind |-> "IntLiteral"]
ExprStringLiteral  == [kind |-> "StringLiteral"]

(* Sig and TyError *)

Sig(ps, ret) == [params |-> ps, ret_ty |-> ret]

\* a diagnostic with its two types exchanged
MismatchSwapped(e, expected, found) == [expr |-> e, expected |-> found, found |-> expected]

\* TyError { expr, kind: TyErrorKind::Mismatch { expected, found } }
Mismatch(e, expected, found) == [expr |-> e, expected |-> expected, found |-> found]

(* InScope::default() *)
DefaultInScope == [local_tys |-> EmptyMap, fnc_sigs |-> EmptyMap, param_tys |-> EmptyMap]

----------------------------------------------------------------------------
(* InferCtx::expect_tys_match *)

\* a location taken from the first statement of the block, not the last
LocatedFirst(exprs, expr) ==
    IF exprs[expr].kind = "Block" /\ exprs[expr].stmts # <<>>
            /\ exprs[expr].stmts[1].kind = "Expr"
    THEN exprs[expr].stmts[1].idx
    ELSE expr

\* lines 159-169: the expression a diagnostic is keyed to
Located(exprs, expr) ==
    IF exprs[expr].kind = "Block"
    THEN LET stmts == exprs[expr].stmts IN
         IF stmts # <<>> /\ stmts[Len(stmts)].kind = "Expr"
         THEN stmts[Len(stmts)].idx
         ELSE expr
    ELSE expr

\* a comparison that forgets the Unknown expected type
TysMatchFoundOnly(expected, found) ==
    found = expected \/ found = Unknown

\* lines 155-157: the comparisons that record nothing
TysMatch(expected, found) ==
    found = expected \/ found = Unknown \/ expected = Unknown

\* a log that takes a new diagnostic at its front
ExpectTysMatchFront(errors, exprs, expr, expected, found) ==
    IF TysMatch(expected, found)
    THEN errors
    ELSE <<Mismatch(Located(exprs, expr), expected, found)>> \o errors

\* the error log after expect_tys_match(expr, expected, found)
ExpectTysMatch(errors, exprs, expr, expected, found) ==
    IF TysMatch(expected, found)
    THEN errors
    ELSE Append(errors, Mismatch(Located(exprs, expr), expected, found))

(* infer_in_scope, lines 8-20, and InferResult::in_scope *)

\* a result that starts without the local definitions of the seed
NewResultNoLocals(seed) ==
    [local_tys |-> EmptyMap,
     fnc_sigs  |-> seed.fnc_sigs,
     param_tys |-> seed.param_tys,
     expr_tys  |-> EmptyMap,
     errors    |-> <<>>]

NewResult(seed) ==
    [local_tys |-> seed.local_tys,
     fnc_sigs  |-> seed.fnc_sigs,
     param_tys |-> seed.param_tys,
     expr_tys  |-> EmptyMap,
     errors    |-> <<>>]

\* a snapshot that loses the function signatures
InScopeOfNoSigs(r) ==
    [local_tys |-> r.local_tys,
     fnc_sigs  |-> EmptyMap,
     param_tys |-> r.param_tys]

InScopeOf(r) ==
    [local_tys |-> r.local_tys,
     fnc_sigs  |-> r.fnc_sigs,
     param_tys |-> r.param_tys]

(* control values and frames *)

CallStmt(s) == [op |-> "stmt", stmt |-> s]
CallExpr(e) == [op |-> "expr", expr |-> e]
Return(ty)  == [op |-> "ret", ty |-> ty]
Start       == [op |-> "start"]

Push(f) == Append(stack, f)
Pop     == SubSeq(stack, 1, Len(stack) - 1)
Top     == stack[Len(stack)]

Running == phase = "running"

Calling(what) == Running /\ ctl.op = what

\* the callee of the innermost frame `fn` at point `at` has returned
Returned(fn, at) ==
    /\ Running
    /\ ctl.op = "ret"
    /\ stack # <<>>
    /\ Top.fn = fn
    /\ Top.at = at

Tick == steps' = steps + 1

Input == <<program, later, in_scope>>

----------------------------------------------------------------------------
(* infer_in_scope: the loop over program.stmts, lines 22-24 *)

InferInScopeLoop ==
    /\ Running
    /\ stack = <<>>
    /\ ctl.op \in {"start", "ret"}
    /\ pos <= Len(program.stmts)
    /\ ctl' = CallStmt(program.stmts[pos])
    /\ pos' = pos + 1
    /\ Tick
    /\ UNCHANGED <<Input, result, stack, phase>>

\* line 26
InferInScopeReturn ==
    /\ Running
    /\ stack = <<>>
    /\ ctl.op \in {"start", "ret"}
    /\ pos > Len(program.stmts)
    /\ phase' = "done"
    /\ Tick
    /\ UNCHANGED <<Input, result, stack, ctl, pos>>

(* infer_stmt *)

\* lines 85-86: the call of infer_expr on the initializer
InferStmtLocalDef ==
    /\ Calling("stmt")
    /\ ctl.stmt.kind = "LocalDef"
    /\ stack' = Push([fn |-> "infer_stmt", at |-> "value", local_def |-> ctl.stmt.idx])
    /\ ctl' = CallExpr(program.local_defs[ctl.stmt.idx].value)
    /\ Tick
    /\ UNCHANGED <<Input, result, pos, phase>>

\* a definition typed with the value of its statement
LocalDefTyOfStmt(value_ty) == Unit

\* line 86: value_ty
LocalDefTy(value_ty) == value_ty

\* lines 87 and 93
InferStmtLocalDefReturn ==
    /\ Returned("infer_stmt", "value")
    /\ result' = [result EXCEPT !.local_tys = Insert(@, Top.local_def, LocalDefTy(ctl.ty))]
    /\ stack' = Pop
    /\ ctl' = Return(Unit)
    /\ Tick
    /\ UNCHANGED <<Input, pos, phase>>

\* line 90
InferStmtExpr ==
    /\ Calling("stmt")
    /\ ctl.stmt.kind = "Expr"
    /\ ctl' = CallExpr(ctl.stmt.idx)
    /\ Tick
    /\ UNCHANGED <<Input, result, stack, pos, phase>>

(* infer_fnc_def *)

\* the indices of an IdxRange, in order
RangeIdxs(range) == [i \in 1..(range.hi + 1 - range.lo) |-> range.lo + i - 1]

\* lines 99-105: the Vec params
DeclaredParamTys(params, range) ==
    [i \in 1..Len(RangeIdxs(range)) |-> params[RangeIdxs(range)[i]].ty]

\* a loop that stops before the last parameter of the range
InsertParamTysButLast(param_tys, params, idxs) ==
    [q \in (DOMAIN param_tys) \cup {idxs[i] : i \in 1..(Len(idxs) - 1)} |->
        IF q \in {idxs[i] : i \in 1..(Len(idxs) - 1)} THEN params[q].ty ELSE param_tys[q]]

RECURSIVE InsertParamTys(_, _, _)
\* lines 101-105: param_tys after the loop over the first n indices
InsertParamTys(param_tys, params, idxs) ==
    IF idxs = <<>>
    THEN param_tys
    ELSE InsertParamTys(Insert(param_tys, Head(idxs), params[Head(idxs)].ty),
                        params, Tail(idxs))

\* a visit that writes the signature before it infers the body
InferStmtFncDefSigFirst ==
    /\ Calling("stmt")
    /\ ctl.stmt.kind = "FncDef"
    /\ LET idx     == ctl.stmt.idx
           fnc_def == program.fnc_defs[idx]
           params  == DeclaredParamTys(program.params, fnc_def.params)
       IN  /\ result' = [result EXCEPT
                            !.param_tys =
                                InsertParamTys(@, program.params, RangeIdxs(fnc_def.params)),
                            !.fnc_sigs = Insert(@, idx, Sig(params, fnc_def.ret_ty))]
           /\ stack' = Push([fn |-> "infer_fnc_def", at |-> "body", idx |-> idx,
                             params |-> params])
           /\ ctl' = CallExpr(fnc_def.body)
    /\ Tick
    /\ UNCHANGED <<Input, pos, phase>>

\* line 89 and lines 97-107
InferStmtFncDef ==
    /\ Calling("stmt")
    /\ ctl.stmt.kind = "FncDef"
    /\ LET idx     == ctl.stmt.idx
           fnc_def == program.fnc_defs[idx]
       IN  /\ result' = [result EXCEPT !.param_tys =
                            InsertParamTys(@, program.params, RangeIdxs(fnc_def.params))]
           /\ stack' = Push([fn |-> "infer_fnc_def", at |-> "body", idx |-> idx,
                             params |-> DeclaredParamTys(program.params, fnc_def.params)])
           /\ ctl' = CallExpr(fnc_def.body)
    /\ Tick
    /\ UNCHANGED <<Input, pos, phase>>

\* a Sig that records the type inferred for the body
SigOfInferred(params, fnc_def, actual_ret_ty) == Sig(params, actual_ret_ty)

\* the Sig of line 110
SigOf(params, fnc_def, actual_ret_ty) == Sig(params, fnc_def.ret_ty)

\* lines 108-110 and 93
InferFncDefReturn ==
    /\ Returned("infer_fnc_def", "body")
    /\ LET fnc_def == program.fnc_defs[Top.idx]
           errors  == ExpectTysMatch(result.errors, program.exprs,
                                     fnc_def.body, fnc_def.ret_ty, ctl.ty)
       IN  result' = [result EXCEPT
                         !.errors = errors,
                         !.fnc_sigs = Insert(@, Top.idx, SigOf(Top.params, fnc_def, ctl.ty))]
    /\ stack' = Pop
    /\ ctl' = Return(Unit)
    /\ Tick
    /\ UNCHANGED <<Input, pos, phase>>

(* infer_expr *)

CallingExpr(kind) == Calling("expr") /\ program.exprs[ctl.expr].kind = kind

\* lines 149-151
ReturnExpr(expr, ty, errors) ==
    /\ result' = [result EXCEPT !.expr_tys = Insert(@, expr, ty), !.errors = errors]
    /\ ctl' = Return(ty)

\* line 115
InferMissing ==
    /\ CallingExpr("Missing")
    /\ ReturnExpr(ctl.expr, Unknown, result.errors)
    /\ Tick
    /\ UNCHANGED <<Input, stack, pos, phase>>

\* line 144
InferIntLiteral ==
    /\ CallingExpr("IntLiteral")
    /\ ReturnExpr(ctl.expr, S32, result.errors)
    /\ Tick
    /\ UNCHANGED <<Input, stack, pos, phase>>

\* line 146
InferStringLiteral ==
    /\ CallingExpr("StringLiteral")
    /\ ReturnExpr(ctl.expr, String, result.errors)
    /\ Tick
    /\ UNCHANGED <<Input, stack, pos, phase>>

\* line 140
VarRefLocalTy(local_tys, local_def) == local_tys[local_def]

InferVarRefLocal ==
    /\ CallingExpr("VarRefLocal")
    /\ Has(result.local_tys, program.exprs[ctl.expr].def)
    /\ ReturnExpr(ctl.expr,
                  VarRefLocalTy(result.local_tys, program.exprs[ctl.expr].def),
                  result.errors)
    /\ Tick
    /\ UNCHANGED <<Input, stack, pos, phase>>

\* line 142
VarRefParamTy(param_tys, param) == param_tys[param]

InferVarRefParam ==
    /\ CallingExpr("VarRefParam")
    /\ Has(result.param_tys, program.exprs[ctl.expr].def)
    /\ ReturnExpr(ctl.expr,
                  VarRefParamTy(result.param_tys, program.exprs[ctl.expr].def),
                  result.errors)
    /\ Tick
    /\ UNCHANGED <<Input, stack, pos, phase>>

\* lines 140 and 142: indexing an ArenaMap at an index it does not hold panics
InferVarRefPanic ==
    /\ \/ /\ CallingExpr("VarRefLocal")
          /\ ~Has(result.local_tys, program.exprs[ctl.expr].def)
       \/ /\ CallingExpr("VarRefParam")
          /\ ~Has(result.param_tys, program.exprs[ctl.expr].def)
    /\ phase' = "panic"
    /\ Tick
    /\ UNCHANGED <<Input, result, stack, ctl, pos>>

\* lines 117-118
InferBin ==
    /\ CallingExpr("Bin")
    /\ stack' = Push([fn |-> "infer_expr", at |-> "lhs", expr |-> ctl.expr])
    /\ ctl' = CallExpr(program.exprs[ctl.expr].lhs)
    /\ Tick
    /\ UNCHANGED <<Input, result, pos, phase>>

\* line 119
InferBinLhsReturn ==
    /\ Returned("infer_expr", "lhs")
    /\ stack' = Append(Pop, [fn |-> "infer_expr", at |-> "rhs", expr |-> Top.expr,
                             lhs_ty |-> ctl.ty])
    /\ ctl' = CallExpr(program.exprs[Top.expr].rhs)
    /\ Tick
    /\ UNCHANGED <<Input, result, pos, phase>>

\* a loop that checks the left operand only
CheckLhsOnly(errors, exprs, lhs, lhs_ty, rhs, rhs_ty) ==
    ExpectTysMatch(errors, exprs, lhs, S32, lhs_ty)

\* a loop that leaves at the first operand that mismatches
CheckUntilMismatch(errors, exprs, lhs, lhs_ty, rhs, rhs_ty) ==
    IF TysMatch(S32, lhs_ty)
    THEN ExpectTysMatch(errors, exprs, rhs, S32, rhs_ty)
    ELSE ExpectTysMatch(errors, exprs, lhs, S32, lhs_ty)

\* lines 121-123: the error log after the loop over both operands
CheckOperands(errors, exprs, lhs, lhs_ty, rhs, rhs_ty) ==
    ExpectTysMatch(ExpectTysMatch(errors, exprs, lhs, S32, lhs_ty),
                   exprs, rhs, S32, rhs_ty)

\* a binary expression typed as its left operand
BinTyOfLhs(lhs_ty, rhs_ty) == lhs_ty

\* line 125
BinTy(lhs_ty, rhs_ty) == S32

\* lines 121-125 and 149-151
InferBinRhsReturn ==
    /\ Returned("infer_expr", "rhs")
    /\ LET bin == program.exprs[Top.expr]
       IN  ReturnExpr(Top.expr, BinTy(Top.lhs_ty, ctl.ty),
                      CheckOperands(result.errors, program.exprs,
                                    bin.lhs, Top.lhs_ty, bin.rhs, ctl.ty))
    /\ stack' = Pop
    /\ Tick
    /\ UNCHANGED <<Input, pos, phase>>

\* line 137
EmptyBlockTy == Unit

\* lines 128 and 137: split_last of an empty list
InferEmptyBlock ==
    /\ CallingExpr("Block")
    /\ program.exprs[ctl.expr].stmts = <<>>
    /\ ReturnExpr(ctl.expr, EmptyBlockTy, result.errors)
    /\ Tick
    /\ UNCHANGED <<Input, stack, pos, phase>>

\* lines 128-131 or 134: the first statement of a non-empty block
InferBlock ==
    /\ CallingExpr("Block")
    /\ program.exprs[ctl.expr].stmts # <<>>
    /\ stack' = Push([fn |-> "infer_expr", at |-> "block", expr |-> ctl.expr, i |-> 1])
    /\ ctl' = CallStmt(program.exprs[ctl.expr].stmts[1])
    /\ Tick
    /\ UNCHANGED <<Input, result, pos, phase>>

\* lines 130-132: a statement of rest has returned, its value is dropped
InferBlockRestReturn ==
    /\ Returned("infer_expr", "block")
    /\ Top.i < Len(program.exprs[Top.expr].stmts)
    /\ stack' = Append(Pop, [Top EXCEPT !.i = @ + 1])
    /\ ctl' = CallStmt(program.exprs[Top.expr].stmts[Top.i + 1])
    /\ Tick
    /\ UNCHANGED <<Input, result, pos, phase>>

\* a block typed as a statement
BlockTyUnit(last_ty) == Unit

\* line 134: the value of the last statement is the block's type
BlockTy(last_ty) == last_ty

\* lines 134 and 149-151
InferBlockLastReturn ==
    /\ Returned("infer_expr", "block")
    /\ Top.i = Len(program.exprs[Top.expr].stmts)
    /\ ReturnExpr(Top.expr, BlockTy(ctl.ty), result.errors)
    /\ stack' = Pop
    /\ Tick
    /\ UNCHANGED <<Input, pos, phase>>

(* The REPL caller: in_scope() of a completed run seeds the next input,   *)
(* as in tests::infer_with_preserved_in_scope                             *)

Resume ==
    /\ phase = "done"
    /\ later # <<>>
    /\ in_scope' = InScopeOf(result)
    /\ result' = NewResult(in_scope')
    /\ program' = [program EXCEPT !.stmts = Head(later)]
    /\ later' = Tail(later)
    /\ stack' = <<>>
    /\ ctl' = Start
    /\ pos' = 1
    /\ phase' = "running"
    /\ steps' = 0


----------------------------------------------------------------------------
(* Inputs.  A program is written as a tree and lowered into the arenas    *)
(* the way the tests build them: operands and statements are allocated    *)
(* before the node that refers to them, definitions in traversal order.   *)
(* A variable reference names its definition by arena index.              *)

TMissing          == [k |-> "Missing"]
TInt              == [k |-> "IntLiteral"]
TStr              == [k |-> "StringLiteral"]
TLocal(j)         == [k |-> "VarRefLocal", n |-> j]
TParam(j)         == [k |-> "VarRefParam", n |-> j]
TBin(l, r)        == [k |-> "Bin", l |-> l, r |-> r]
TBlock(ss)        == [k |-> "Block", ss |-> ss]
TLocalDef(v)      == [k |-> "LocalDef", v |-> v]
TFncDef(ps, r, b) == [k |-> "FncDef", ps |-> ps, ret |-> r, body |-> b]
TExprStmt(e)      == [k |-> "Expr", e |-> e]

EmptyArenas == [local_defs |-> <<>>, fnc_defs |-> <<>>, params |-> <<>>, exprs |-> <<>>]

AllocExpr(A, e) ==
    [arenas |-> [A EXCEPT !.exprs = Append(@, e)], idx |-> Len(A.exprs) + 1]

AllocParams(A, tys) ==
    [A EXCEPT !.params = @ \o [i \in 1..Len(tys) |-> [ty |-> tys[i]]]]

RECURSIVE LowerExpr(_, _), LowerStmt(_, _), LowerStmts(_, _, _)

LowerExpr(t, A) ==
    CASE t.k = "Missing"       -> AllocExpr(A, ExprMissing)
      [] t.k = "IntLiteral"    -> AllocExpr(A, ExprIntLiteral)
      [] t.k = "StringLiteral" -> AllocExpr(A, ExprStringLiteral)
      [] t.k = "VarRefLocal"   -> AllocExpr(A, ExprVarRefLocal(t.n))
      [] t.k = "VarRefParam"   -> AllocExpr(A, ExprVarRefParam(t.n))
      [] t.k = "Bin" ->
            LET l == LowerExpr(t.l, A)
                r == LowerExpr(t.r, l.arenas)
            IN  AllocExpr(r.arenas, ExprBin(l.idx, r.idx))
      [] t.k = "Block" ->
            LET ss == LowerStmts(t.ss, A, <<>>)
            IN  AllocExpr(ss.arenas, ExprBlock(ss.stmts))

LowerStmt(t, A) ==
    CASE t.k = "Expr" ->
            LET e == LowerExpr(t.e, A)
            IN  [arenas |-> e.arenas, stmt |-> StmtExpr(e.idx)]
      [] t.k = "LocalDef" ->
            LET v == LowerExpr(t.v, A)
            IN  [arenas |-> [v.arenas EXCEPT !.local_defs = Append(@, [value |-> v.idx])],
                 stmt   |-> StmtLocalDef(Len(v.arenas.local_defs) + 1)]
      [] t.k = "FncDef" ->
            LET lo == Len(A.params) + 1
                b  == LowerExpr(t.body, AllocParams(A, t.ps))
                f  == [params |-> [lo |-> lo, hi |-> lo + Len(t.ps) - 1],
                       ret_ty |-> t.ret, body |-> b.idx]
            IN  [arenas |-> [b.arenas EXCEPT !.fnc_defs = Append(@, f)],
                 stmt   |-> StmtFncDef(Len(b.arenas.fnc_defs) + 1)]

LowerStmts(ts, A, acc) ==
    IF ts = <<>>
    THEN [arenas |-> A, stmts |-> acc]
    ELSE LET s == LowerStmt(Head(ts), A)
         IN  LowerStmts(Tail(ts), s.arenas, Append(acc, s.stmt))

\* a REPL session: the arenas of all inputs, the first input split off at k
Session(ts, k) ==
    LET low == LowerStmts(ts, EmptyArenas, <<>>)
        n   == Len(low.stmts)
    IN  [program |-> [local_defs |-> low.arenas.local_defs,
                      fnc_defs   |-> low.arenas.fnc_defs,
                      params     |-> low.arenas.params,
                      exprs      |-> low.arenas.exprs,
                      stmts      |-> SubSeq(low.stmts, 1, k)],
         later   |-> <<SubSeq(low.stmts, k + 1, n), <<>> >>]


(* Bounds of the inputs.  The three numbers bound the lists; nesting is    *)
(* bounded by the shape of the input families below: in the first three a *)
(* binary expression has at most one operand that is a block or another   *)
(* binary expression, and blocks hold leaves, references and definitions; *)
(* in the last both operands may be blocks of two statements, the first   *)
(* of which records a diagnostic.                                         *)

MaxBlockStmts == 2   \* statements of a generated block
MaxChain      == 2   \* local definitions chained by variable references
MaxParams     == 2   \* parameters of a generated function

SeqsUpTo(S, n) == UNION {[1..m -> S] : m \in 0..n}

Leaves == {TMissing, TInt, TStr}

\* both orders of a binary expression with one operand from X, one from A
Bins(X, A) == {TBin(x, a) : x \in X, a \in A} \cup {TBin(a, x) : x \in X, a \in A}

\* the statements of generated blocks: expression statements of each type
\* (the reference is to the first local definition), a local definition and
\* a function definition
BlockStmts ==
    {TExprStmt(TMissing), TExprStmt(TStr), TExprStmt(TLocal(1)),
     TLocalDef(TInt), TFncDef(<<>>, Unit, TBlock(<<>>))}

Blocks == {TBlock(ss) : ss \in SeqsUpTo(BlockStmts, MaxBlockStmts)}

Operands == Leaves \cup Blocks

\* a single statement: an expression (a leaf, a block, a binary expression
\* over them or over another binary expression), or a local definition or
\* a function definition over the smaller of these
PlainInputs ==
    {<<TExprStmt(e)>> :
        e \in Operands \cup Bins(Operands, Leaves) \cup Bins(Bins(Leaves, Leaves), Leaves)}
        \cup {<<TLocalDef(e)>> : e \in Operands}
        \cup {<<TFncDef(<<>>, ret, e)>> :
                ret \in Ty, e \in Operands \cup Bins(Leaves, Leaves)}

\* c local definitions, the first initialised by root, each other one by a
\* reference to the one before
Chain(root, c) ==
    [i \in 1..c |-> IF i = 1 THEN TLocalDef(root) ELSE TLocalDef(TLocal(i - 1))]

\* uses of a variable v: as a statement, an initializer, an operand, a
\* function body, and each of these through a block
Uses(v) ==
    LET es == {v, TBlock(<<TExprStmt(v)>>), TBlock(<<TLocalDef(v)>>)}
        bs == es \cup Bins(es, {TInt, TStr})
    IN  {TExprStmt(e) : e \in bs} \cup {TLocalDef(e) : e \in es}
            \cup {TFncDef(<<>>, ret, e) : ret \in Ty, e \in es}

\* a chain followed by a use of one of its definitions, or of a definition
\* that is never visited
ChainInputs ==
    {Chain(root, c) \o <<u>> :
        root \in Leaves \cup {TBlock(<<>>)}, c \in 1..MaxChain,
        u \in UNION {Uses(TLocal(j)) : j \in 1..(MaxChain + 1)}}

\* a function of one parameter, which its body binds to a local definition,
\* followed by a function with declared parameter and return types whose
\* body refers to a parameter: its own, the first function's, or one that
\* no function declares
FncInputs ==
    LET bodies(v) == {v, TBlock(<<TExprStmt(v)>>)}
    IN  {<<TFncDef(<<String>>, Unit, TBlock(<<TLocalDef(TParam(1))>>)), TFncDef(ps, ret, b)>> :
            ps \in SeqsUpTo(Ty, MaxParams), ret \in {S32, Unit},
            b \in UNION {bodies(TParam(j)) : j \in 1..(MaxParams + 2)}}

\* statements that record a diagnostic: a binary expression with a String
\* operand, and a function whose body is not of its declared return type
ErrStmts == {TExprStmt(TBin(TStr, TInt)), TFncDef(<<>>, S32, TStr)}

\* operands of every type: leaves, and blocks that hold one of these
\* statements followed by a trailing expression or a definition
ErrOperands ==
    {TStr, TInt} \cup
    {TBlock(<<e, t>>) : e \in ErrStmts, t \in {TExprStmt(TStr), TLocalDef(TInt)}}

\* a binary expression over two such operands, followed by a statement
\* that records a diagnostic or by one that records none
ErrInputs ==
    {<<TExprStmt(TBin(a, b)), s>> :
        a \in ErrOperands, b \in ErrOperands,
        s \in ErrStmts \cup {TLocalDef(TInt), TExprStmt(TBlock(<<TExprStmt(TStr)>>))}}

Inputs == PlainInputs \cup ChainInputs \cup FncInputs \cup ErrInputs

----------------------------------------------------------------------------
Init ==
    /\ \E ts \in Inputs :
         \E k \in 0..Len(ts) :
            LET s == Session(ts, k) IN program = s.program /\ later = s.later
    /\ in_scope = DefaultInScope
    /\ result = NewResult(DefaultInScope)
    /\ stack = <<>>
    /\ ctl = Start
    /\ pos = 1
    /\ phase = "running"
    /\ steps = 0

Next ==
    \/ InferInScopeLoop
    \/ InferInScopeReturn
    \/ InferStmtLocalDef
    \/ InferStmtLocalDefReturn
    \/ InferStmtExpr
    \/ InferStmtFncDef
    \/ InferFncDefReturn
    \/ InferMissing
    \/ InferIntLiteral
    \/ InferStringLiteral
    \/ InferVarRefLocal
    \/ InferVarRefParam
    \/ InferVarRefPanic
    \/ InferBin
    \/ InferBinLhsReturn
    \/ InferBinRhsReturn
    \/ InferEmptyBlock
    \/ InferBlock
    \/ InferBlockRestReturn
    \/ InferBlockLastReturn
    \/ Resume

Spec == Init /\ [][Next]_vars


----------------------------------------------------------------------------
(* What the properties speak about: the expressions, statements and       *)
(* definitions that a statement list contains, and the reference          *)
(* discipline of a well-formed program.                                   *)

RECURSIVE SubExprs(_, _), StmtsExprs(_, _)

\* the expression e and every expression below it
SubExprs(P, e) ==
    {e} \cup
    CASE P.exprs[e].kind = "Bin"   -> SubExprs(P, P.exprs[e].lhs) \cup SubExprs(P, P.exprs[e].rhs)
      [] P.exprs[e].kind = "Block" -> StmtsExprs(P, P.exprs[e].stmts)
      [] OTHER -> {}

StmtsExprs(P, ss) ==
    UNION {SubExprs(P, CASE ss[i].kind = "LocalDef" -> P.local_defs[ss[i].idx].value
                         [] ss[i].kind = "FncDef"   -> P.fnc_defs[ss[i].idx].body
                         [] ss[i].kind = "Expr"     -> ss[i].idx) : i \in DOMAIN ss}

Range(f) == {f[i] : i \in DOMAIN f}

\* the expressions of the current input
ProgramExprs == StmtsExprs(program, program.stmts)

\* its statements: those of the program and those of its blocks
ProgramStmts ==
    Range(program.stmts) \cup
    UNION {Range(program.exprs[e].stmts) :
            e \in {b \in ProgramExprs : program.exprs[b].kind = "Block"}}

ProgramLocalDefs == {s.idx : s \in {t \in ProgramStmts : t.kind = "LocalDef"}}
ProgramFncDefs   == {s.idx : s \in {t \in ProgramStmts : t.kind = "FncDef"}}
ProgramParams    ==
    UNION {Range(RangeIdxs(program.fnc_defs[f].params)) : f \in ProgramFncDefs}

RECURSIVE WfExpr(_, _, _), WfStmts(_, _, _)

\* env: the definitions visited so far; ok: no reference so far was to a
\* definition not yet visited or to an index outside its arena
WfExpr(P, e, env) ==
    IF ~env.ok \/ e \notin DOMAIN P.exprs THEN [env EXCEPT !.ok = FALSE]
    ELSE CASE P.exprs[e].kind = "VarRefLocal" ->
                [env EXCEPT !.ok = P.exprs[e].def \in env.locals]
           [] P.exprs[e].kind = "VarRefParam" ->
                [env EXCEPT !.ok = P.exprs[e].def \in env.params]
           [] P.exprs[e].kind = "Bin" ->
                WfExpr(P, P.exprs[e].rhs, WfExpr(P, P.exprs[e].lhs, env))
           [] P.exprs[e].kind = "Block" -> WfStmts(P, P.exprs[e].stmts, env)
           [] OTHER -> env

WfStmts(P, ss, env) ==
    IF ss = <<>> \/ ~env.ok THEN env
    ELSE LET s == Head(ss)
             after ==
                CASE s.kind = "Expr" -> WfExpr(P, s.idx, env)
                  [] s.kind = "LocalDef" ->
                        IF s.idx \notin DOMAIN P.local_defs THEN [env EXCEPT !.ok = FALSE]
                        ELSE LET v == WfExpr(P, P.local_defs[s.idx].value, env)
                             IN  [v EXCEPT !.locals = @ \cup {s.idx}]
                  [] s.kind = "FncDef" ->
                        IF s.idx \notin DOMAIN P.fnc_defs THEN [env EXCEPT !.ok = FALSE]
                        ELSE LET ps == Range(RangeIdxs(P.fnc_defs[s.idx].params))
                             IN  IF ~(ps \subseteq DOMAIN P.params)
                                 THEN [env EXCEPT !.ok = FALSE]
                                 ELSE WfExpr(P, P.fnc_defs[s.idx].body,
                                             [env EXCEPT !.params = @ \cup ps])
         IN  WfStmts(P, Tail(ss), after)

\* the current input is well-formed for the scope it was seeded with
WellFormed ==
    WfStmts(program, program.stmts,
            [ok |-> TRUE, locals |-> DOMAIN in_scope.local_tys,
             params |-> DOMAIN in_scope.param_tys]).ok

Done == phase = "done"

Typed(e) == Has(result.expr_tys, e)

\* the statement s has been inferred to its end
Inferred(s) ==
    CASE s.kind = "Expr"     -> Typed(s.idx)
      [] s.kind = "LocalDef" -> Typed(program.local_defs[s.idx].value)
                                    /\ Has(result.local_tys, s.idx)
      [] s.kind = "FncDef"   -> Typed(program.fnc_defs[s.idx].body)
                                    /\ Has(result.fnc_sigs, s.idx)

\* no expression of the statement s has been inferred
Untouched(s) ==
    CASE s.kind = "Expr"     -> ~Typed(s.idx)
      [] s.kind = "LocalDef" -> ~Typed(program.local_defs[s.idx].value)
      [] s.kind = "FncDef"   -> ~Typed(program.fnc_defs[s.idx].body)

----------------------------------------------------------------------------
StepBound == 3 * Cardinality(ProgramExprs) + 3 * Cardinality(ProgramStmts) + 1

AllTyped ==
    /\ \A e \in ProgramExprs : Typed(e) /\ result.expr_tys[e] \in Ty
    /\ \A d \in ProgramLocalDefs : Has(result.local_tys, d) /\ result.local_tys[d] \in Ty
    /\ \A q \in ProgramParams : Has(result.param_tys, q) /\ result.param_tys[q] \in Ty
    /\ \A f \in ProgramFncDefs :
            /\ Has(result.fnc_sigs, f)
            /\ result.fnc_sigs[f].ret_ty \in Ty
            /\ \A i \in DOMAIN result.fnc_sigs[f].params : result.fnc_sigs[f].params[i] \in Ty

(* C1: for a well-formed program the run never panics, can always take    *)
(* its next step until it returns, returns within a number of steps       *)
(* linear in the size of the program, and at return holds a Ty for every  *)
(* expression, local definition and parameter and a Sig for every         *)
(* function definition of the program.                                    *)
C1_Totality ==
    WellFormed =>
        /\ phase # "panic"
        /\ steps <= StepBound
        /\ Running => ENABLED Next
        /\ Done => AllTyped

C1_Witness ==
    /\ Done
    /\ WellFormed
    /\ ProgramLocalDefs # {}
    /\ ProgramParams # {}
    /\ Cardinality(ProgramExprs) >= 3
    /\ 2 * steps >= StepBound


----------------------------------------------------------------------------
(* The calls of expect_tys_match that the step about to be taken makes,   *)
(* in order, and the diagnostics a step appends                           *)

FncCheck == Returned("infer_fnc_def", "body")
BinCheck == Returned("infer_expr", "rhs")

Check(e, expected, found) == [expr |-> e, expected |-> expected, found |-> found]

Checks ==
    IF FncCheck
    THEN <<Check(program.fnc_defs[Top.idx].body, program.fnc_defs[Top.idx].ret_ty, ctl.ty)>>
    ELSE IF BinCheck
    THEN <<Check(program.exprs[Top.expr].lhs, S32, Top.lhs_ty),
           Check(program.exprs[Top.expr].rhs, S32, ctl.ty)>>
    ELSE <<>>

Clashing(c) == c.found # c.expected /\ c.found # Unknown /\ c.expected # Unknown

NewErrors == SubSeq(result'.errors, Len(result.errors) + 1, Len(result'.errors))

\* the trailing expression of a non-empty block that ends in an expression
\* statement, the expression itself otherwise
TrailingOrSelf(e) ==
    LET x == program.exprs[e] IN
    IF x.kind = "Block" /\ Len(x.stmts) > 0 /\ x.stmts[Len(x.stmts)].kind = "Expr"
    THEN x.stmts[Len(x.stmts)].idx
    ELSE e

(* C2: a step records at most as many diagnostics as it makes checks      *)
(* whose expected and found types are both known and differ, and each     *)
(* diagnostic carries the types of such a check; so a check with Unknown  *)
(* on either side, or with equal sides, records nothing.                  *)

C2_Absorption ==
    [][LET clashing == SelectSeq(Checks, Clashing) IN
       /\ Len(NewErrors) <= Len(clashing)
       /\ \A i \in DOMAIN NewErrors :
            \E j \in DOMAIN clashing :
                /\ NewErrors[i].expected = clashing[j].expected
                /\ NewErrors[i].found = clashing[j].found]_vars

\* a function declared to return Int whose body is typed Unknown has been
\* visited and the log is empty
C2_Witness ==
    /\ Done
    /\ result.errors = <<>>
    /\ \E f \in ProgramFncDefs :
            /\ program.fnc_defs[f].ret_ty = S32
            /\ Has(result.fnc_sigs, f)
            /\ result.expr_tys[program.fnc_defs[f].body] = Unknown

(* C3: every diagnostic a step records is keyed to the trailing           *)
(* expression of the checked expression when that is a non-empty block    *)
(* ending in an expression statement, and to the checked expression       *)
(* itself otherwise.                                                      *)

C3_ErrorLocality ==
    [][LET clashing == SelectSeq(Checks, Clashing) IN
       /\ Len(NewErrors) = Len(clashing)
       /\ \A i \in DOMAIN NewErrors :
            NewErrors[i].expr = TrailingOrSelf(clashing[i].expr)]_vars

\* a run has returned with a diagnostic keyed to the trailing expression
\* of a block, carrying the block's type as the found type
C3_Witness ==
    /\ Done
    /\ \E i \in DOMAIN result.errors :
         \E b \in ProgramExprs :
            /\ program.exprs[b].kind = "Block"
            /\ program.exprs[b].stmts # <<>>
            /\ program.exprs[b].stmts[Len(program.exprs[b].stmts)].kind = "Expr"
            /\ result.errors[i].expr = program.exprs[b].stmts[Len(program.exprs[b].stmts)].idx
            /\ result.errors[i].found = result.expr_tys[b]


----------------------------------------------------------------------------
TypedOfKind(kind) == {e \in DOMAIN result.expr_tys : program.exprs[e].kind = kind}

OperandsOf(b) == {program.exprs[b].lhs, program.exprs[b].rhs}

\* positions of the log whose diagnostic is keyed to e
ErrorsAt(e) == {i \in DOMAIN result.errors : result.errors[i].expr = e}

LastStmt(b) == program.exprs[b].stmts[Len(program.exprs[b].stmts)]

(* C4 as claimed: once a Bin is typed, each operand typed neither Int nor *)
(* Unknown has exactly one diagnostic at its own index, a                 *)
(* Mismatch(Int, its type), and an operand typed Int or Unknown has none. *)

C4_OperandOwnIndex ==
    \A b \in TypedOfKind("Bin") :
        \A o \in OperandsOf(b) :
            IF result.expr_tys[o] \notin {S32, Unknown}
            THEN /\ Cardinality(ErrorsAt(o)) = 1
                 /\ \A i \in ErrorsAt(o) :
                        /\ result.errors[i].expected = S32
                        /\ result.errors[i].found = result.expr_tys[o]
            ELSE ErrorsAt(o) = {}

(* C4 as amended: the one diagnostic is at the operand's own index unless *)
(* the operand is a non-empty block ending in an expression statement,    *)
(* and then at that trailing expression.                                  *)

C4_OperandLocated ==
    \A b \in TypedOfKind("Bin") :
        \A o \in OperandsOf(b) :
            IF result.expr_tys[o] \notin {S32, Unknown}
            THEN /\ Cardinality(ErrorsAt(TrailingOrSelf(o))) = 1
                 /\ \A i \in ErrorsAt(TrailingOrSelf(o)) :
                        /\ result.errors[i].expected = S32
                        /\ result.errors[i].found = result.expr_tys[o]
            ELSE ErrorsAt(TrailingOrSelf(o)) = {}

\* a Bin whose two operands both mismatch, one of them a block that ends in
\* an expression statement, has been typed
C4_Witness ==
    \E b \in TypedOfKind("Bin") :
        /\ \A o \in OperandsOf(b) : result.expr_tys[o] \notin {S32, Unknown}
        /\ \E o \in OperandsOf(b) : TrailingOrSelf(o) # o
        /\ Len(result.errors) = 2

(* C5: a typed block has type Unit when it is empty or ends in a          *)
(* definition and the type of its trailing expression otherwise; its      *)
(* statements are inferred in list order: while statement i is being      *)
(* inferred those before it are complete and those after it untouched,    *)
(* and when the block is typed all of them are complete.                  *)

C5_BlockTyping ==
    /\ \A b \in TypedOfKind("Block") :
            /\ result.expr_tys[b] =
                    IF program.exprs[b].stmts = <<>> THEN Unit
                    ELSE IF LastStmt(b).kind = "Expr" THEN result.expr_tys[LastStmt(b).idx]
                    ELSE Unit
            /\ \A i \in DOMAIN program.exprs[b].stmts : Inferred(program.exprs[b].stmts[i])
    /\ \A n \in DOMAIN stack :
            (stack[n].fn = "infer_expr" /\ stack[n].at = "block") =>
                LET stmts == program.exprs[stack[n].expr].stmts IN
                /\ ~Typed(stack[n].expr)
                /\ \A i \in DOMAIN stmts :
                    /\ i < stack[n].i => Inferred(stmts[i])
                    /\ i > stack[n].i => Untouched(stmts[i])

\* a block of two statements that ends in an expression statement of a
\* known type has been typed
C5_Witness ==
    \E b \in TypedOfKind("Block") :
        /\ Len(program.exprs[b].stmts) >= 2
        /\ LastStmt(b).kind = "Expr"
        /\ result.expr_tys[b] \in {S32, String}

DeclaredSig(f) ==
    LET d == program.fnc_defs[f] IN
    [params |-> [i \in 1..(d.params.hi + 1 - d.params.lo) |->
                    program.params[d.params.lo + i - 1].ty],
     ret_ty |-> d.ret_ty]

Visiting(f) == \E n \in DOMAIN stack : stack[n].fn = "infer_fnc_def" /\ stack[n].idx = f

(* C6: every recorded signature of a function definition lists the        *)
(* declared types of the parameters of its range in range order and the   *)
(* declared return type; it is recorded as soon as the visit of the       *)
(* definition has ended, also when the body mismatched.                   *)
C6_SigDeclared ==
    /\ \A f \in DOMAIN result.fnc_sigs : result.fnc_sigs[f] = DeclaredSig(f)
    /\ \A f \in ProgramFncDefs :
            (Typed(program.fnc_defs[f].body) /\ ~Visiting(f)) => Has(result.fnc_sigs, f)

\* a function of two parameters of different types whose body mismatched
\* the declared return type has its signature
C6_Witness ==
    \E f \in ProgramFncDefs :
        /\ Has(result.fnc_sigs, f)
        /\ Len(result.fnc_sigs[f].params) = 2
        /\ result.fnc_sigs[f].params[1] # result.fnc_sigs[f].params[2]
        /\ Typed(program.fnc_defs[f].body)
        /\ \E i \in DOMAIN result.errors :
                /\ result.errors[i].expected = program.fnc_defs[f].ret_ty
                /\ result.errors[i].expr = TrailingOrSelf(program.fnc_defs[f].body)

(* C7: when a completed run's snapshot seeds a run over an empty          *)
(* statement list, that run starts with the local, parameter and          *)
(* signature maps of the completed run and an empty log, and returns      *)
(* them unchanged.                                                        *)

C7_SnapshotIdempotent ==
    [][/\ (Done /\ phase' = "running" /\ program'.stmts = <<>>) =>
            /\ result'.local_tys = result.local_tys
            /\ result'.param_tys = result.param_tys
            /\ result'.fnc_sigs = result.fnc_sigs
            /\ result'.errors = <<>>
       /\ (Running /\ program.stmts = <<>>) =>
            /\ phase' = "done"
            /\ result' = result]_vars

\* a run over no statements, seeded with local definitions, parameters
\* and signatures, has returned
C7_Witness ==
    /\ Done
    /\ program.stmts = <<>>
    /\ in_scope.local_tys # EmptyMap
    /\ in_scope.param_tys # EmptyMap
    /\ in_scope.fnc_sigs # EmptyMap
    /\ InScopeOf(result) = in_scope

SeedRefs ==
    {e \in TypedOfKind("VarRefLocal") :
        /\ Has(in_scope.local_tys, program.exprs[e].def)
        /\ program.exprs[e].def \notin ProgramLocalDefs}

(* C8: in a seeded run a reference to a local definition of the seed that *)
(* the new statements do not contain is typed with the seed's type and    *)
(* the definition's initializer is not inferred; every entry of the seed  *)
(* whose definition the new statements do not contain keeps its value.    *)
C8_SeedPreserved ==
    /\ \A e \in SeedRefs :
            /\ result.expr_tys[e] = in_scope.local_tys[program.exprs[e].def]
            /\ ~Typed(program.local_defs[program.exprs[e].def].value)
    /\ \A d \in (DOMAIN in_scope.local_tys) \ ProgramLocalDefs :
            Has(result.local_tys, d) /\ result.local_tys[d] = in_scope.local_tys[d]
    /\ \A q \in (DOMAIN in_scope.param_tys) \ ProgramParams :
            Has(result.param_tys, q) /\ result.param_tys[q] = in_scope.param_tys[q]
    /\ \A f \in (DOMAIN in_scope.fnc_sigs) \ ProgramFncDefs :
            Has(result.fnc_sigs, f) /\ result.fnc_sigs[f] = in_scope.fnc_sigs[f]

\* a seeded run that referred to a definition of its seed has returned
C8_Witness ==
    /\ Done
    /\ SeedRefs # {}
    /\ \E e \in SeedRefs : result.expr_tys[e] = String

RECURSIVE ChainRoot(_)
\* the first initializer of the chain that defines d
ChainRoot(d) ==
    LET v == program.local_defs[d].value IN
    IF program.exprs[v].kind = "VarRefLocal" /\ program.exprs[v].def \in DOMAIN program.local_defs
            /\ program.exprs[v].def < d
    THEN ChainRoot(program.exprs[v].def)
    ELSE v

(* C9: a reference to a local definition has the type recorded for the    *)
(* definition; a definition initialised by a reference has the type of    *)
(* the definition referred to, hence of the first initializer of its      *)
(* chain; when that is Missing the definitions and references are         *)
(* Unknown and no diagnostic is keyed to a reference.                     *)
C9_UnknownFlows ==
    /\ \A e \in TypedOfKind("VarRefLocal") :
            LET d == program.exprs[e].def IN
            /\ result.expr_tys[e] = result.local_tys[d]
            /\ program.exprs[ChainRoot(d)].kind = "Missing" =>
                    result.expr_tys[e] = Unknown /\ ErrorsAt(e) = {}
    /\ \A d \in DOMAIN result.local_tys :
            /\ Typed(ChainRoot(d)) => result.local_tys[d] = result.expr_tys[ChainRoot(d)]
            /\ program.exprs[ChainRoot(d)].kind = "Missing" => result.local_tys[d] = Unknown

\* the last definition of a chain of two that starts at Missing has been
\* used as the operand of a Bin, or as a function body, and the log is empty
C9_Witness ==
    /\ Done
    /\ result.errors = <<>>
    /\ \E e \in TypedOfKind("VarRefLocal") :
            LET d == program.exprs[e].def IN
            /\ ChainRoot(d) # program.local_defs[d].value
            /\ program.exprs[ChainRoot(d)].kind = "Missing"
            /\ \/ \E b \in TypedOfKind("Bin") : e \in OperandsOf(b)
               \/ \E f \in ProgramFncDefs :
                    program.fnc_defs[f].body = e /\ program.fnc_defs[f].ret_ty = S32

(* C10: a typed Bin has type Int whatever its operands' types, so no      *)
(* diagnostic is keyed to a Bin that is an operand of a typed Bin or the  *)
(* body of a visited function declared to return Int.                     *)

C10_BinAlwaysInt ==
    /\ \A b \in TypedOfKind("Bin") :
            /\ result.expr_tys[b] = S32
            /\ \A o \in OperandsOf(b) : program.exprs[o].kind = "Bin" => ErrorsAt(o) = {}
    /\ \A f \in ProgramFncDefs :
            (/\ Has(result.fnc_sigs, f)
             /\ program.fnc_defs[f].ret_ty = S32
             /\ program.exprs[program.fnc_defs[f].body].kind = "Bin") =>
                ErrorsAt(program.fnc_defs[f].body) = {}

\* a Bin with a String operand is an operand of a typed Bin, and the one
\* diagnostic of the log is that of the String operand
C10_Witness ==
    /\ Done
    /\ Len(result.errors) = 1
    /\ \E b \in TypedOfKind("Bin") :
         \E o \in OperandsOf(b) :
            /\ program.exprs[o].kind = "Bin"
            /\ \E x \in OperandsOf(o) : result.expr_tys[x] = String /\ ErrorsAt(x) # {}

----------------------------------------------------------------------------
\* the expressions of the statement s
StmtExprs(s) == StmtsExprs(program, <<s>>)

\* positions of the log whose diagnostic is keyed to an expression of X
ErrorsIn(X) == {i \in DOMAIN result.errors : result.errors[i].expr \in X}

\* a diagnostic has been recorded inside the statement s
Erroring(s) == ErrorsIn(StmtExprs(s)) # {}

\* the statement s is complete and each of its expressions has its type
FullyInferred(s) == Inferred(s) /\ \A e \in StmtExprs(s) : Typed(e)

\* in the list ss every statement after an erroring one is complete
NoneSkipped(ss) ==
    \A i \in DOMAIN ss : \A j \in DOMAIN ss :
        (i < j /\ Erroring(ss[i])) => FullyInferred(ss[j])

Mismatching(o) == result.expr_tys[o] \notin {S32, Unknown}

\* the visit of the expression e is in progress
VisitingExpr(e) == \E n \in DOMAIN stack : stack[n].fn = "infer_expr" /\ stack[n].expr = e

\* the body of f has a known type that differs from a known declared one
RetMismatch(f) ==
    /\ program.fnc_defs[f].ret_ty # Unknown
    /\ result.expr_tys[program.fnc_defs[f].body] \notin {Unknown, program.fnc_defs[f].ret_ty}

(* C11: a diagnostic stops nothing.  A typed Bin has both operands typed  *)
(* and as many operand diagnostics as operands that mismatch (two when    *)
(* both do); a Bin whose left operand is typed and whose visit is over is *)
(* typed; a function whose body mismatched its return type has its        *)
(* signature once its visit is over; and when a run has returned or a     *)
(* block is typed, every statement of the list after an erroring one is   *)
(* complete with all its expressions typed.                               *)
C11_NoShortCircuit ==
    /\ \A b \in TypedOfKind("Bin") :
            /\ \A o \in OperandsOf(b) : Typed(o)
            /\ Cardinality(UNION {ErrorsAt(TrailingOrSelf(o)) : o \in OperandsOf(b)})
                    = Cardinality({o \in OperandsOf(b) : Mismatching(o)})
    /\ \A b \in ProgramExprs :
            (/\ program.exprs[b].kind = "Bin"
             /\ Typed(program.exprs[b].lhs)
             /\ ~VisitingExpr(b)) => Typed(b)
    /\ \A f \in ProgramFncDefs :
            (/\ Typed(program.fnc_defs[f].body)
             /\ ~Visiting(f)
             /\ RetMismatch(f)) =>
                /\ Has(result.fnc_sigs, f)
                /\ ErrorsAt(TrailingOrSelf(program.fnc_defs[f].body)) # {}
    /\ Done => NoneSkipped(program.stmts)
    /\ \A b \in TypedOfKind("Block") : NoneSkipped(program.exprs[b].stmts)

\* a run of two statements has returned: a Bin of two mismatching
\* operands, the left one a block whose first statement recorded a
\* diagnostic, then a function whose body mismatched its return type
C11_Witness ==
    /\ Done
    /\ Len(program.stmts) = 2
    /\ Erroring(program.stmts[1])
    /\ \E b \in TypedOfKind("Bin") :
            /\ \A o \in OperandsOf(b) : Mismatching(o)
            /\ program.exprs[program.exprs[b].lhs].kind = "Block"
            /\ Erroring(program.exprs[program.exprs[b].lhs].stmts[1])
    /\ \E f \in ProgramFncDefs :
            /\ program.stmts[2] = StmtFncDef(f)
            /\ RetMismatch(f)
            /\ Has(result.fnc_sigs, f)
    /\ Len(result.errors) = 4

----------------------------------------------------------------------------
\* the sequence s starts with the sequence r
IsPrefix(r, s) == Len(r) <= Len(s) /\ SubSeq(s, 1, Len(r)) = r

\* every position of X is before every position of Y
Before(X, Y) == \A p \in X : \A q \in Y : p < q

\* the diagnostic of the check of the operand o itself, and those
\* recorded while o was being inferred
Own(o)    == ErrorsAt(TrailingOrSelf(o))
Inside(o) == ErrorsIn(SubExprs(program, o)) \ Own(o)

\* the diagnostics of the statements of the list ss are in list order
InListOrder(ss) ==
    \A i \in DOMAIN ss : \A j \in DOMAIN ss :
        i < j => Before(ErrorsIn(StmtExprs(ss[i])), ErrorsIn(StmtExprs(ss[j])))

ProgramBlocks == {b \in ProgramExprs : program.exprs[b].kind = "Block"}
ProgramBins   == {b \in ProgramExprs : program.exprs[b].kind = "Bin"}

TraversalOrder ==
    /\ InListOrder(program.stmts)
    /\ \A b \in ProgramBlocks : InListOrder(program.exprs[b].stmts)
    /\ \A b \in ProgramBins :
            LET l == program.exprs[b].lhs
                r == program.exprs[b].rhs
            IN  /\ Before(Inside(l), Inside(r))
                /\ Before(Inside(r), Own(l))
                /\ Before(Inside(l), Own(l))
                /\ Before(Own(l), Own(r))
                /\ Before(Inside(l), Own(r))
                /\ Before(Inside(r), Own(r))

(* C12: every step of a run leaves the log as it is or extends it at its  *)
(* end, so the log of every state of the run is a prefix of the log the   *)
(* run returns; and in every state the log is in traversal order: in the  *)
(* program and in each block the diagnostics of an earlier statement are  *)
(* before those of a later one, and for a Bin those from inside the left  *)
(* operand, those from inside the right operand, the left operand's own   *)
(* and the right operand's own follow each other in this order.           *)
C12_AppendOnlyInOrder ==
    /\ [][Running => IsPrefix(result.errors, result'.errors)]_vars
    /\ []TraversalOrder

\* a run has returned whose log holds, for one Bin, a diagnostic from
\* inside each operand and each operand's own, and then a diagnostic of
\* the statement after the Bin
C12_Witness ==
    /\ Done
    /\ Len(program.stmts) = 2
    /\ \E b \in ProgramBins :
            /\ program.stmts[1] = StmtExpr(b)
            /\ \A o \in OperandsOf(b) : Inside(o) # {} /\ Own(o) # {}
    /\ ErrorsIn(StmtExprs(program.stmts[2])) = {5}

----------------------------------------------------------------------------
\* the parameters of the range of the function definition f
ParamsOf(f) == Range(RangeIdxs(program.fnc_defs[f].params))

\* the references of the body of f to parameters of f that have their type
OwnParamRefs(f) ==
    {e \in SubExprs(program, program.fnc_defs[f].body) \cap TypedOfKind("VarRefParam") :
        program.exprs[e].def \in ParamsOf(f)}

(* C13: while a function definition is being visited, and as soon as any  *)
(* expression of its body has a type, every parameter of its range is in  *)
(* param_tys with its declared type, and a reference in the body to one   *)
(* of them has the declared type; and for a function that the seed of the *)
(* run has no signature of, the signature is absent while the definition  *)
(* is being visited, and once it is present the body has its type and a   *)
(* mismatch with the declared return type has its diagnostic.             *)
C13_ParamsBeforeSigAfter ==
    \A f \in ProgramFncDefs :
        LET body == program.fnc_defs[f].body IN
        /\ (Visiting(f) \/ \E e \in SubExprs(program, body) : Typed(e)) =>
                \A q \in ParamsOf(f) :
                    Has(result.param_tys, q) /\ result.param_tys[q] = program.params[q].ty
        /\ \A e \in OwnParamRefs(f) :
                result.expr_tys[e] = program.params[program.exprs[e].def].ty
        /\ ~Has(in_scope.fnc_sigs, f) =>
                /\ Visiting(f) => ~Has(result.fnc_sigs, f)
                /\ Has(result.fnc_sigs, f) =>
                        /\ Typed(body)
                        /\ RetMismatch(f) => ErrorsAt(TrailingOrSelf(body)) # {}

\* in a fresh run the visit of a function of two parameters is in
\* progress: a reference of its body to its second parameter has the
\* declared type String, the body, a block, has no type yet and the
\* signature is absent
C13_Witness ==
    /\ in_scope = DefaultInScope
    /\ \E f \in ProgramFncDefs :
            /\ Visiting(f)
            /\ Cardinality(ParamsOf(f)) = 2
            /\ ~Typed(program.fnc_defs[f].body)
            /\ ~Has(result.fnc_sigs, f)
            /\ \E e \in OwnParamRefs(f) :
                    /\ program.exprs[e].def = program.fnc_defs[f].params.hi
                    /\ result.expr_tys[e] = String
                    /\ program.params[program.fnc_defs[f].params.lo].ty # String

----------------------------------------------------------------------------
(* C14: in every state every diagnostic of the log has an expected and a  *)
(* found type that differ and are both known, and is keyed to an          *)
(* expression that has its type, which is the found type; also when the   *)
(* key is the trailing expression of the block that was checked.          *)
C14_LogEntriesTyped ==
    \A i \in DOMAIN result.errors :
        LET d == result.errors[i] IN
        /\ d.expected # d.found
        /\ d.expected # Unknown
        /\ d.found # Unknown
        /\ Typed(d.expr)
        /\ result.expr_tys[d.expr] = d.found

\* a run in progress whose log holds a diagnostic keyed to the trailing
\* expression of a typed block and one keyed to a block that ends in a
\* definition, found to be Unit
C14_Witness ==
    /\ Running
    /\ \E i \in DOMAIN result.errors :
         \E b \in TypedOfKind("Block") :
            /\ TrailingOrSelf(b) # b
            /\ result.errors[i].expr = TrailingOrSelf(b)
            /\ result.errors[i].found = String
    /\ \E j \in DOMAIN result.errors :
            /\ program.exprs[result.errors[j].expr].kind = "Block"
            /\ LastStmt(result.errors[j].expr).kind = "LocalDef"
            /\ result.errors[j].found = Unit

====
